---- MODULE Spec2Model ----
(***************************************************************************)
(* Model of src/validate.py: the migration validation script.  The script  *)
(* is a single pass over two CSV files (OLD and NEW); every section of the *)
(* script is one action, taken in source order.                            *)
(*                                                                         *)
(* Text is modelled as a sequence of one-character strings so that         *)
(* str.strip, the NA detection of pandas.read_csv and the lexicographic    *)
(* order of sort_values are computed, not assumed.                         *)
(***************************************************************************)
EXTENDS Integers, Sequences, FiniteSets, TLC

----------------------------------------------------------------------------
(* Bounds of the model                                                     *)

\* Rows per file when the key fields, the null cells or the columns vary.
MaxRows == 2

\* Rows per file when only the row order and the repetition of keys vary
\* (two distinct repeated keys need four rows).
MaxSortRows == 4

----------------------------------------------------------------------------
(* Text                                                                    *)

\* Code points of the characters the inputs are written with.
ord(c) ==
    CASE c = " " -> 32
      [] c = "0" -> 48
      [] c = "7" -> 55
      [] c = "A" -> 65
      [] c = "N" -> 78
      [] c = "a" -> 97
      [] c = "n" -> 110
      [] c = "x" -> 120

RECURSIVE lstrip(_)
lstrip(s) ==
    IF s = <<>> THEN s
    ELSE IF Head(s) = " " THEN lstrip(Tail(s)) ELSE s

RECURSIVE rstrip(_)
rstrip(s) ==
    IF s = <<>> THEN s
    ELSE IF s[Len(s)] = " " THEN rstrip(SubSeq(s, 1, Len(s) - 1)) ELSE s

\* str.strip(): removes leading and trailing whitespace, nothing else.
strip(s) == rstrip(lstrip(s))

\* Python's < on str: lexicographic on code points.
RECURSIVE str_lt(_, _)
str_lt(a, b) ==
    IF b = <<>> THEN FALSE
    ELSE IF a = <<>> THEN TRUE
    ELSE IF ord(Head(a)) < ord(Head(b)) THEN TRUE
    ELSE IF ord(Head(a)) > ord(Head(b)) THEN FALSE
    ELSE str_lt(Tail(a), Tail(b))

str_le(a, b) == a = b \/ str_lt(a, b)

----------------------------------------------------------------------------
(* pandas values                                                           *)

\* The missing-value marker of a DataFrame cell (float NaN); no text cell
\* equals it, since text cells are sequences of single characters.
NaN == <<"NaN">>

\* pandas.read_csv keeps its default NA detection under dtype=str: a field
\* whose text is exactly one of the default na_values becomes NaN.  The
\* match is on the untrimmed field.  (Those of the default list that the
\* model's alphabet can write.)
na_values == { <<>>, <<"N", "A">>, <<"n", "a", "n">>, <<"N", "a", "N">> }

read_cell(raw) == IF raw \in na_values THEN NaN ELSE raw

\* Series.astype(str) on an object column: str(float('nan')) = 'nan'.
astype_str(v) == IF v = NaN THEN <<"n", "a", "n">> ELSE v

\* Series.str.strip(): NaN stays NaN.
str_strip(v) == IF v = NaN THEN NaN ELSE strip(v)

\* old_df[primary_key].astype(str).str.strip()
normalize_pk(v) == str_strip(astype_str(v))

----------------------------------------------------------------------------
(* Configuration                                                           *)

primary_key == "customer_id"
required_fields == <<"email">>

\* Every column name an input file of the model can carry, in sorted() order.
all_columns == <<"customer_id", "email">>

----------------------------------------------------------------------------
(* Values with a Python type                                               *)

None == [type |-> "NoneType", value |-> 0]

\* The outcome of an expression that raises KeyError (df[col] on a column
\* the frame does not have).
KeyError == [type |-> "KeyError", value |-> 0]

\* Series.sum() returns a numpy integer scalar.
np_int64(n) == [type |-> "numpy.int64", value |-> n]

\* isinstance(v, int): numpy.int64 is not a subclass of int in Python 3.
isinstance_int(v) == v.type = "int"

----------------------------------------------------------------------------
(* DataFrames: [columns : set of names, rows : sequence of records]        *)

\* pd.read_csv(path, dtype=str): every cell is text or NaN.
read_csv(csv) ==
    [columns |-> csv.columns,
     rows    |-> [i \in 1..Len(csv.rows) |->
                    [c \in DOMAIN csv.rows[i] |-> read_cell(csv.rows[i][c])]]]

\* Faulty variant: a membership test that always succeeds.
has_column_always(df, col) == TRUE

\* col in df.columns
has_column(df, col) == col \in df.columns

\* df[col] = df[col].astype(str).str.strip() for the primary key column
with_normalized_pk(df) ==
    [df EXCEPT !.rows =
        [i \in 1..Len(df.rows) |->
            [df.rows[i] EXCEPT ![primary_key] = normalize_pk(@)]]]

\* df[col] as a Series
column(df, col) == [i \in 1..Len(df.rows) |-> df.rows[i][col]]

\* Series.isin(values)
isin(series, values) == [i \in DOMAIN series |-> series[i] \in values]

\* (boolean Series).sum()
mask_sum(mask) == Cardinality({i \in DOMAIN mask : mask[i]})

\* Faulty variant: duplicated() with the default keep='first'.
duplicated_keep_first(series) ==
    [i \in DOMAIN series |-> \E j \in DOMAIN series : j < i /\ series[j] = series[i]]

\* Series.duplicated(keep=False): every occurrence of a repeated value.
duplicated(series) ==
    [i \in DOMAIN series |-> \E j \in DOMAIN series : j # i /\ series[j] = series[i]]

\* df.loc[mask]: the selected rows, in the order of the frame.
RECURSIVE loc_from(_, _, _)
loc_from(rows, mask, i) ==
    IF i > Len(rows) THEN <<>>
    ELSE IF mask[i] THEN <<rows[i]>> \o loc_from(rows, mask, i + 1)
    ELSE loc_from(rows, mask, i + 1)

loc(rows, mask) == loc_from(rows, mask, 1)

\* Faulty variant: the rows are written in input order.
sort_values_unsorted(rows) == {rows}

\* t with row r put at position p
insert_at(t, p, r) == SubSeq(t, 1, p - 1) \o <<r>> \o SubSeq(t, p, Len(t))

\* The positions of the sorted sequence t at which row r keeps it sorted.
sorted_positions(t, r) ==
    { p \in 1..(Len(t) + 1) :
        /\ p = 1 \/ str_le(t[p - 1][primary_key], r[primary_key])
        /\ p = Len(t) + 1 \/ str_le(r[primary_key], t[p][primary_key]) }

\* Every key-sorted arrangement of the first k rows.
RECURSIVE sorted_orders(_, _)
sorted_orders(rows, k) ==
    IF k = 0 THEN {<<>>}
    ELSE UNION { { insert_at(t, p, rows[k]) : p \in sorted_positions(t, rows[k]) } :
                 t \in sorted_orders(rows, k - 1) }

\* DataFrame.sort_values(by=primary_key): ascending on the key text.  The
\* default kind is quicksort, which is not stable: the relative order of
\* rows with equal keys is any order.
sort_values(rows) == sorted_orders(rows, Len(rows))

----------------------------------------------------------------------------
(* State                                                                   *)

VARIABLES
    old_csv, new_csv,           \* the two input files
    ALLOWED_DELETIONS,          \* allowlists (configuration of the run)
    ALLOWED_ADDITIONS,
    pc,                         \* the section of the script to run next
    raised,                     \* the exception that ended the run, or "none"
    old_df, new_df,             \* the loaded frames
    results,                    \* the check results, in order
    files,                      \* names of the files written by this run
    old_dups_df, new_dups_df,   \* content of duplicates_old/new.csv
    null_rows,                  \* content of nulls_summary.csv
    schema_rows,                \* content of schema_comparison.csv
    missing_in_new,             \* content of missing_in_new.csv
    extra_in_new,               \* content of extra_in_new.csv
    missing_count, extra_count,
    html                        \* what the report shows

inputs == <<old_csv, new_csv, ALLOWED_DELETIONS, ALLOWED_ADDITIONS>>
frames == <<old_df, new_df>>
proofs == <<old_dups_df, new_dups_df, null_rows, schema_rows>>
deltas == <<missing_in_new, extra_in_new, missing_count, extra_count>>
vars == <<inputs, pc, raised, frames, results, files, proofs, deltas, html>>

old_pk == column(old_df, primary_key)
new_pk == column(new_df, primary_key)

----------------------------------------------------------------------------
(* Inputs of the model                                                     *)

\* Key fields as they stand in the file: plain, padded, and numeric-looking
\* with and without leading zeros.
KeyFields == { <<"A">>, <<" ", "A", " ">>, <<"7">>, <<"0", "0", "7">> }

\* Key fields around the NA token of read_csv: the token plain and padded.
NaKeyFields == { <<"A">>, <<"N", "A">>, <<" ", "N", "A">> }

\* Other fields: empty (a null) or a value.
EmailFields == { <<>>, <<"x">> }

SeqsUpTo(S, n) == UNION { [1..k -> S] : k \in 0..n }

EmptyFrame == [columns |-> {}, rows |-> <<>>]

\* Both files carry both columns and every email; the keys vary.
InitKeys ==
    /\ \E pool \in {KeyFields, NaKeyFields} :
        /\ old_csv \in [columns : {{"customer_id", "email"}},
                        rows : SeqsUpTo([customer_id : pool, email : {<<"x">>}], MaxRows)]
        /\ new_csv \in [columns : {{"customer_id", "email"}},
                        rows : SeqsUpTo([customer_id : pool, email : {<<"x">>}], MaxRows)]
    /\ ALLOWED_DELETIONS \in {{}, {<<"A">>}}
    /\ ALLOWED_ADDITIONS \in {{}, {<<"7">>}}

\* The email column is present or not, and its cells are null or not.
InitNulls ==
    /\ \E oc, nc \in SUBSET {"email"} :
        /\ old_csv \in [columns : {{"customer_id"} \cup oc},
                        rows : SeqsUpTo([customer_id : {<<"A">>, <<"7">>},
                                         email : IF oc = {} THEN {<<>>} ELSE EmailFields],
                                        MaxRows)]
        /\ new_csv \in [columns : {{"customer_id"} \cup nc},
                        rows : SeqsUpTo([customer_id : {<<"A">>, <<"7">>},
                                         email : IF nc = {} THEN {<<>>} ELSE EmailFields],
                                        MaxRows)]
    /\ ALLOWED_DELETIONS = {}
    /\ ALLOWED_ADDITIONS = {}

\* The primary key column is missing from one file or from both.
InitNoPk ==
    /\ \E oc, nc \in SUBSET {"customer_id"} :
        /\ oc = {} \/ nc = {}
        /\ old_csv \in [columns : {{"email"} \cup oc},
                        rows : SeqsUpTo([customer_id : IF oc = {} THEN {<<>>} ELSE {<<"A">>, <<"7">>},
                                         email : EmailFields], MaxRows)]
        /\ new_csv \in [columns : {{"email"} \cup nc},
                        rows : SeqsUpTo([customer_id : IF nc = {} THEN {<<>>} ELSE {<<"A">>, <<"7">>},
                                         email : EmailFields], MaxRows)]
    /\ ALLOWED_DELETIONS \in {{}, {<<"A">>}}
    /\ ALLOWED_ADDITIONS = {}

\* Longer files over two keys: several repeated keys, in any row order.
InitOrder ==
    /\ old_csv \in [columns : {{"customer_id", "email"}},
                    rows : SeqsUpTo([customer_id : {<<"A">>, <<"7">>}, email : {<<"x">>}],
                                    MaxSortRows)]
    /\ new_csv \in [columns : {{"customer_id", "email"}},
                    rows : SeqsUpTo([customer_id : {<<"A">>, <<"7">>}, email : {<<"x">>}],
                                    MaxSortRows)]
    /\ ALLOWED_DELETIONS = {}
    /\ ALLOWED_ADDITIONS = {}

Init ==
    /\ InitKeys \/ InitNulls \/ InitNoPk \/ InitOrder
    /\ pc = "load"
    /\ raised = "none"
    /\ old_df = EmptyFrame
    /\ new_df = EmptyFrame
    /\ results = <<>>
    /\ files = {}
    /\ old_dups_df = <<>>
    /\ new_dups_df = <<>>
    /\ null_rows = <<>>
    /\ schema_rows = <<>>
    /\ missing_in_new = <<>>
    /\ extra_in_new = <<>>
    /\ missing_count = 0
    /\ extra_count = 0
    /\ html = [written |-> FALSE, rows |-> <<>>, differences_section |-> FALSE]

----------------------------------------------------------------------------
(* Load                                                                    *)

\* The files are read; the primary key column is missing from one of them
\* and KeyError ends the run.
LoadKeyError ==
    /\ pc = "load"
    /\ \/ ~has_column(read_csv(old_csv), primary_key)
       \/ ~has_column(read_csv(new_csv), primary_key)
    /\ old_df' = read_csv(old_csv)
    /\ new_df' = read_csv(new_csv)
    /\ raised' = "KeyError"
    /\ pc' = "aborted"
    /\ UNCHANGED <<inputs, results, files, proofs, deltas, html>>

\* The files are read and the primary key column of both is normalized.
Load ==
    /\ pc = "load"
    /\ has_column(read_csv(old_csv), primary_key)
    /\ has_column(read_csv(new_csv), primary_key)
    /\ old_df' = with_normalized_pk(read_csv(old_csv))
    /\ new_df' = with_normalized_pk(read_csv(new_csv))
    /\ pc' = "row_count"
    /\ UNCHANGED <<inputs, raised, results, files, proofs, deltas, html>>

----------------------------------------------------------------------------
(* Row counts (with allowlists)                                            *)

allowed_del_count == mask_sum(isin(old_pk, ALLOWED_DELETIONS))
allowed_add_count == mask_sum(isin(new_pk, ALLOWED_ADDITIONS))

\* Faulty variant: the raw row count, no allowlist adjustment.
adjusted_raw(n, allowed) == n

\* len(df) - allowed count
adjusted(n, allowed) == n - allowed

adj_old == adjusted(Len(old_df.rows), allowed_del_count)
adj_new == adjusted(Len(new_df.rows), allowed_add_count)
row_match == adj_old = adj_new

RowCount ==
    /\ pc = "row_count"
    /\ results' = Append(results,
          [name   |-> "Row count match",
           status |-> IF row_match THEN "PASS" ELSE "FAIL",
           notes  |-> [old |-> Len(old_df.rows), adj_old |-> adj_old,
                       allowed_deletions |-> allowed_del_count,
                       new |-> Len(new_df.rows), adj_new |-> adj_new,
                       allowed_additions |-> allowed_add_count]])
    /\ files' = files \cup {"row_counts.csv"}
    /\ pc' = "duplicates"
    /\ UNCHANGED <<inputs, raised, frames, proofs, deltas, html>>

----------------------------------------------------------------------------
(* Duplicates                                                              *)

old_dup_mask == duplicated(old_pk)
new_dup_mask == duplicated(new_pk)

Duplicates ==
    /\ pc = "duplicates"
    /\ \E od \in sort_values(loc(old_df.rows, old_dup_mask)),
          nd \in sort_values(loc(new_df.rows, new_dup_mask)) :
        LET old_dups == Len(od)
            new_dups == Len(nd)
            pk_ok == old_dups = 0 /\ new_dups = 0
        IN  /\ old_dups_df' = od
            /\ new_dups_df' = nd
            /\ results' = Append(results,
                  [name   |-> "Primary key duplicates",
                   status |-> IF pk_ok THEN "PASS" ELSE "FAIL",
                   notes  |-> [old_dupes |-> old_dups, new_dupes |-> new_dups]])
    /\ files' = files \cup {"duplicates_old.csv", "duplicates_new.csv"}
    /\ pc' = "nulls"
    /\ UNCHANGED <<inputs, raised, frames, null_rows, schema_rows, deltas, html>>

----------------------------------------------------------------------------
(* Nulls in required fields                                                *)

\* Faulty variant: the column is read without the membership test.
nulls_of_unguarded(df, col) ==
    IF has_column(df, col)
    THEN np_int64(mask_sum([i \in 1..Len(df.rows) |-> df.rows[i][col] = NaN]))
    ELSE KeyError

\* df[col].isna().sum() if col in df.columns else None
nulls_of(df, col) ==
    IF has_column(df, col)
    THEN np_int64(mask_sum([i \in 1..Len(df.rows) |-> df.rows[i][col] = NaN]))
    ELSE None

\* The loop over required_fields from position i on: the value of null_ok
\* and of null_rows when it ends.
RECURSIVE null_loop(_, _, _)
null_loop(i, null_ok, rows) ==
    IF i > Len(required_fields)
    THEN [raised |-> "none", null_ok |-> null_ok, null_rows |-> rows]
    ELSE LET col == required_fields[i]
             old_nulls == nulls_of(old_df, col)
             new_nulls == nulls_of(new_df, col)
             ok1 == IF isinstance_int(old_nulls) /\ old_nulls.value > 0
                    THEN FALSE ELSE null_ok
             ok2 == IF isinstance_int(new_nulls) /\ new_nulls.value > 0
                    THEN FALSE ELSE ok1
         IN  IF KeyError \in {old_nulls, new_nulls}
             THEN [raised |-> "KeyError", null_ok |-> null_ok, null_rows |-> rows]
             ELSE null_loop(i + 1, ok2,
                            Append(rows, [field |-> col,
                                          old_nulls |-> old_nulls,
                                          new_nulls |-> new_nulls]))

\* An exception raised inside the loop ends the run before the result is
\* appended and before nulls_summary.csv is written.
Nulls ==
    /\ pc = "nulls"
    /\ LET r == null_loop(1, TRUE, <<>>)
       IN  IF r.raised # "none"
           THEN /\ raised' = r.raised
                /\ pc' = "aborted"
                /\ UNCHANGED <<null_rows, results, files>>
           ELSE /\ null_rows' = r.null_rows
                /\ results' = Append(results,
                      [name   |-> "Nulls in required fields",
                       status |-> IF r.null_ok THEN "PASS" ELSE "WARN",
                       notes  |-> r.null_rows])
                /\ files' = files \cup {"nulls_summary.csv"}
                /\ pc' = "schema"
                /\ UNCHANGED raised
    /\ UNCHANGED <<inputs, frames, old_dups_df, new_dups_df,
                   schema_rows, deltas, html>>

----------------------------------------------------------------------------
(* Schema comparison                                                       *)

\* One row per column of sorted(old_cols | new_cols).
schema_of(old_cols, new_cols) ==
    LET row(c) == [column |-> c, in_old |-> c \in old_cols, in_new |-> c \in new_cols]
    IN  [i \in 1..Len(SelectSeq(all_columns, LAMBDA c : c \in old_cols \cup new_cols)) |->
            row(SelectSeq(all_columns, LAMBDA c : c \in old_cols \cup new_cols)[i])]

Schema ==
    /\ pc = "schema"
    /\ schema_rows' = schema_of(old_df.columns, new_df.columns)
    /\ files' = files \cup {"schema_comparison.csv"}
    /\ pc' = "deltas"
    /\ UNCHANGED <<inputs, raised, frames, results, old_dups_df, new_dups_df,
                   null_rows, deltas, html>>

----------------------------------------------------------------------------
(* Deltas (exclude allowlisted IDs)                                        *)

old_keys == {old_pk[i] : i \in DOMAIN old_pk}
new_keys == {new_pk[i] : i \in DOMAIN new_pk}

\* Faulty variant: the allowlist is not consulted.
unexpected_mask_no_allowlist(pk, other_keys, allowed) ==
    [i \in DOMAIN pk |-> ~isin(pk, other_keys)[i]]

\* (~pk.isin(other_keys)) & (~pk.isin(allowed))
unexpected_mask(pk, other_keys, allowed) ==
    [i \in DOMAIN pk |-> ~isin(pk, other_keys)[i] /\ ~isin(pk, allowed)[i]]

missing_mask == unexpected_mask(old_pk, new_keys, ALLOWED_DELETIONS)
extra_mask == unexpected_mask(new_pk, old_keys, ALLOWED_ADDITIONS)

\* Faulty variant: the count of distinct keys of the rows.
delta_count_distinct(rows) == Cardinality({rows[i][primary_key] : i \in 1..Len(rows)})

\* len(frame): the number of rows.
delta_count(rows) == Len(rows)

Deltas ==
    /\ pc = "deltas"
    /\ missing_in_new' = loc(old_df.rows, missing_mask)
    /\ extra_in_new' = loc(new_df.rows, extra_mask)
    /\ missing_count' = delta_count(loc(old_df.rows, missing_mask))
    /\ extra_count' = delta_count(loc(new_df.rows, extra_mask))
    /\ files' = files \cup {"missing_in_new.csv", "extra_in_new.csv"}
    /\ pc' = "rekeys"
    /\ UNCHANGED <<inputs, raised, frames, results, proofs, html>>

----------------------------------------------------------------------------
(* Possible rekeys: the file is written on both branches; no later section *)
(* reads its rows.                                                         *)

Rekeys ==
    /\ pc = "rekeys"
    /\ files' = files \cup {"possible_rekeys.csv"}
    /\ pc' = "report"
    /\ UNCHANGED <<inputs, raised, frames, results, proofs, deltas, html>>

----------------------------------------------------------------------------
(* Report and manifest                                                     *)

\* One table row per check result; the differences section is shown only
\* when an unexpected difference exists.
Report ==
    /\ pc = "report"
    /\ html' = [written |-> TRUE,
                rows |-> [i \in 1..Len(results) |->
                            [name |-> results[i].name, status |-> results[i].status]],
                differences_section |-> ~(missing_count = 0 /\ extra_count = 0)]
    /\ files' = files \cup {"sample-report.html", "manifest.json"}
    /\ pc' = "done"
    /\ UNCHANGED <<inputs, raised, frames, results, proofs, deltas>>

----------------------------------------------------------------------------

Next ==
    \/ LoadKeyError
    \/ Load
    \/ RowCount
    \/ Duplicates
    \/ Nulls
    \/ Schema
    \/ Deltas
    \/ Rekeys
    \/ Report

Spec == Init /\ [][Next]_vars

----------------------------------------------------------------------------
(* Properties                                                              *)

PkMissing ==
    primary_key \notin old_csv.columns \/ primary_key \notin new_csv.columns

Loaded == pc \notin {"load", "aborted"}
AfterDeltas == pc \in {"rekeys", "report", "done"}

Occurrences(pk, k) == Cardinality({i \in DOMAIN pk : pk[i] = k})
HasRepeatedKey(pk) == \E i \in DOMAIN pk : Occurrences(pk, pk[i]) > 1
RowsWithRepeatedKey(pk) == Cardinality({i \in DOMAIN pk : Occurrences(pk, pk[i]) > 1})

KeysOf(rows) == {rows[i][primary_key] : i \in 1..Len(rows)}

\* The rows are in ascending lexicographic order of the key.
is_sorted_by_pk(rows) ==
    \A i, j \in 1..Len(rows) :
        i < j => str_le(rows[i][primary_key], rows[j][primary_key])

\* sub is full with some rows left out, the others in the order of full.
RECURSIVE IsSubsequence(_, _)
IsSubsequence(sub, full) ==
    IF sub = <<>> THEN TRUE
    ELSE IF full = <<>> THEN FALSE
    ELSE IF Head(sub) = Head(full) /\ IsSubsequence(Tail(sub), Tail(full)) THEN TRUE
    ELSE IsSubsequence(sub, Tail(full))

\* C1: when the primary key column is missing from the old or the new
\* file, the run ends with KeyError before any check has run: it never gets
\* past loading, no check result exists and no proof file, report or
\* manifest has been written.
C1_AbortBeforeAnyCheck ==
    PkMissing =>
        /\ pc \in {"load", "aborted"}
        /\ pc = "aborted" => raised = "KeyError"
        /\ results = <<>>
        /\ files = {}
        /\ ~html.written

C1_Witness ==
    /\ pc = "aborted"
    /\ raised = "KeyError"
    /\ primary_key \in old_csv.columns
    /\ primary_key \notin new_csv.columns
    /\ Len(old_csv.rows) > 0
    /\ results = <<>>

AnyRequiredNull ==
    \E k \in 1..Len(required_fields) :
        \/ /\ required_fields[k] \in old_df.columns
           /\ \E i \in 1..Len(old_df.rows) : old_df.rows[i][required_fields[k]] = NaN
        \/ /\ required_fields[k] \in new_df.columns
           /\ \E i \in 1..Len(new_df.rows) : new_df.rows[i][required_fields[k]] = NaN

\* C2: the 'Nulls in required fields' check is WARN when some required
\* column has a null cell in the old or the new table, PASS when none has,
\* and never FAIL.
C2_NullsWarn ==
    Len(results) >= 3 =>
        /\ results[3].name = "Nulls in required fields"
        /\ results[3].status = IF AnyRequiredNull THEN "WARN" ELSE "PASS"

\* C3: 'Row count match' is PASS exactly when the old row count minus the
\* old rows with an allowlisted-deletion key equals the new row count minus
\* the new rows with an allowlisted-addition key, FAIL otherwise.
C3_RowCountMatch ==
    Len(results) >= 1 =>
        /\ results[1].name = "Row count match"
        /\ results[1].status =
            IF Len(old_df.rows) - Cardinality({i \in DOMAIN old_pk : old_pk[i] \in ALLOWED_DELETIONS})
             = Len(new_df.rows) - Cardinality({i \in DOMAIN new_pk : new_pk[i] \in ALLOWED_ADDITIONS})
            THEN "PASS" ELSE "FAIL"

\* The counts differ, the adjustment makes them equal, and the allowlisted
\* row is found through its trimmed key.
C3_Witness ==
    /\ Len(results) >= 1
    /\ results[1].status = "PASS"
    /\ Len(old_df.rows) # Len(new_df.rows)
    /\ \E i \in DOMAIN old_pk :
        /\ old_pk[i] \in ALLOWED_DELETIONS
        /\ old_csv.rows[i][primary_key] # old_pk[i]

\* C4: 'Primary key duplicates' is FAIL exactly when a normalized key is
\* repeated in the old or in the new table; the counts it reports are the
\* numbers of rows whose key is repeated; neither depends on the allowlists.
C4_DuplicateCheck ==
    Len(results) >= 2 =>
        /\ results[2].name = "Primary key duplicates"
        /\ results[2].status =
            IF HasRepeatedKey(old_pk) \/ HasRepeatedKey(new_pk) THEN "FAIL" ELSE "PASS"
        /\ results[2].notes.old_dupes = RowsWithRepeatedKey(old_pk)
        /\ results[2].notes.new_dupes = RowsWithRepeatedKey(new_pk)

\* A key twice in OLD (once padded), allowlisted, none repeated in NEW.
C4_Witness ==
    /\ Len(results) >= 2
    /\ results[2].status = "FAIL"
    /\ results[2].notes.old_dupes = 2
    /\ results[2].notes.new_dupes = 0
    /\ old_csv.rows[1][primary_key] # old_csv.rows[2][primary_key]
    /\ old_pk[1] \in ALLOWED_DELETIONS

\* C5: no row with an allowlisted-deletion key is in 'missing in new', no
\* row with an allowlisted-addition key is in 'extra in new'; every missing
\* row has a key of old that new lacks, every extra row a key of new that
\* old lacks.
C5_AllowlistAbsorption ==
    AfterDeltas =>
        /\ \A i \in 1..Len(missing_in_new) :
            /\ missing_in_new[i][primary_key] \notin ALLOWED_DELETIONS
            /\ missing_in_new[i][primary_key] \in KeysOf(old_df.rows)
            /\ missing_in_new[i][primary_key] \notin KeysOf(new_df.rows)
        /\ \A i \in 1..Len(extra_in_new) :
            /\ extra_in_new[i][primary_key] \notin ALLOWED_ADDITIONS
            /\ extra_in_new[i][primary_key] \in KeysOf(new_df.rows)
            /\ extra_in_new[i][primary_key] \notin KeysOf(old_df.rows)

\* An allowlisted deletion and an allowlisted addition beside a common key:
\* both outputs are empty.
C5_Witness ==
    /\ pc = "done"
    /\ \E k \in KeysOf(old_df.rows) : k \in ALLOWED_DELETIONS /\ k \notin KeysOf(new_df.rows)
    /\ \E k \in KeysOf(new_df.rows) : k \in ALLOWED_ADDITIONS /\ k \notin KeysOf(old_df.rows)
    /\ KeysOf(old_df.rows) \cap KeysOf(new_df.rows) # {}
    /\ missing_in_new = <<>>
    /\ extra_in_new = <<>>

UnexpectedMissingKeys == (KeysOf(old_df.rows) \ KeysOf(new_df.rows)) \ ALLOWED_DELETIONS
UnexpectedExtraKeys == (KeysOf(new_df.rows) \ KeysOf(old_df.rows)) \ ALLOWED_ADDITIONS

\* C6 as stated: the missing and extra counts are numbers of distinct keys.
C6_CountsDistinctKeys ==
    AfterDeltas =>
        /\ missing_count = Cardinality(UnexpectedMissingKeys)
        /\ extra_count = Cardinality(UnexpectedExtraKeys)

\* C6 as amended: the missing count is the number of old ROWS whose key is
\* not allowlisted and not in new, the extra count the number of new rows
\* whose key is not allowlisted and not in old; a key on several rows counts
\* once per row, so the counts are the numbers of distinct keys only when
\* no such key is repeated.
C6_CountsRows ==
    AfterDeltas =>
        /\ missing_count =
             Cardinality({i \in DOMAIN old_pk : old_pk[i] \in UnexpectedMissingKeys})
        /\ extra_count =
             Cardinality({i \in DOMAIN new_pk : new_pk[i] \in UnexpectedExtraKeys})
        /\ ~HasRepeatedKey(old_pk) => missing_count = Cardinality(UnexpectedMissingKeys)
        /\ ~HasRepeatedKey(new_pk) => extra_count = Cardinality(UnexpectedExtraKeys)

\* One unexpected missing key on two rows of OLD: the count is 2.
C6_Witness ==
    /\ pc = "done"
    /\ Cardinality(UnexpectedMissingKeys) = 1
    /\ missing_count = 2
    /\ Len(new_df.rows) > 0

RawAndKey(csv, df) ==
    { <<csv.rows[i][primary_key], df.rows[i][primary_key]>> : i \in 1..Len(df.rows) }

\* C7: two key fields are the same key exactly when their trimmed texts are
\* equal (padding is ignored; '007' and '7' stay apart).
C7_KeysAreTrimmedText ==
    Loaded =>
        \A a, b \in RawAndKey(old_csv, old_df) \cup RawAndKey(new_csv, new_df) :
            (strip(a[1]) = strip(b[1])) <=> (a[2] = b[2])

\* C8 as stated: missing rows, extra rows and the duplicate rows of each
\* table are all in lexicographic order of the key.
C8_AllSorted ==
    /\ is_sorted_by_pk(old_dups_df)
    /\ is_sorted_by_pk(new_dups_df)
    /\ is_sorted_by_pk(missing_in_new)
    /\ is_sorted_by_pk(extra_in_new)

\* C8 as amended: the duplicate rows of each table are in lexicographic
\* order of the key whatever the row order of the input; the missing rows
\* and the extra rows are in the row order of their input table.
C8_DupsSortedDeltasInRowOrder ==
    /\ is_sorted_by_pk(old_dups_df)
    /\ is_sorted_by_pk(new_dups_df)
    /\ IsSubsequence(missing_in_new, old_df.rows)
    /\ IsSubsequence(extra_in_new, new_df.rows)

\* Two repeated keys in OLD, out of order in the file: the duplicate rows
\* come out sorted, the missing rows do not.
C8_Witness ==
    /\ pc = "done"
    /\ Cardinality(KeysOf(old_dups_df)) = 2
    /\ ~is_sorted_by_pk(loc(old_df.rows, old_dup_mask))
    /\ Len(missing_in_new) >= 2
    /\ ~is_sorted_by_pk(missing_in_new)

CheckNames ==
    <<"Row count match", "Primary key duplicates", "Nulls in required fields">>

\* C9: with the primary key column in both files the run never aborts: no
\* exception is raised, every section before the end can run, the results
\* are always the first checks of the fixed list with a status among PASS,
\* FAIL and WARN, and the finished run has exactly the three of them.
C9_NoAbortOnFindings ==
    ~PkMissing =>
        /\ raised = "none"
        /\ pc # "aborted"
        /\ pc # "done" => ENABLED Next
        /\ Len(results) <= 3
        /\ \A i \in 1..Len(results) :
            /\ results[i].name = CheckNames[i]
            /\ results[i].status \in {"PASS", "FAIL", "WARN"}
        /\ pc \in {"schema", "deltas", "rekeys", "report", "done"} => Len(results) = 3
        /\ pc = "done" => html.written /\ Len(html.rows) = 3

\* A finished run over a row-count mismatch, a repeated key, a null
\* required cell, a required column missing from NEW, differing column
\* sets and unexpected missing rows.
C9_Witness ==
    /\ pc = "done"
    /\ ~PkMissing
    /\ "email" \in old_df.columns
    /\ "email" \notin new_df.columns
    /\ AnyRequiredNull
    /\ results[1].status = "FAIL"
    /\ results[2].status = "FAIL"
    /\ missing_count > 0
    /\ Len(results) = 3

\* C10: with no repeated key and the same key set in both tables, 'Row
\* count match' is PASS and both delta outputs are empty, whatever the
\* allowlists.
C10_SameKeysPass ==
    (AfterDeltas /\ ~HasRepeatedKey(old_pk) /\ ~HasRepeatedKey(new_pk)
        /\ KeysOf(old_df.rows) = KeysOf(new_df.rows)) =>
        /\ results[1].status = "PASS"
        /\ missing_in_new = <<>>
        /\ extra_in_new = <<>>

====
